---- MODULE Spec2Model ----
(***************************************************************************)
(* Gmail-Sorting: the classification job pipeline.                         *)
(*   workers.py        classify_emails_task (the Celery worker task)       *)
(*   main.py           start_classification_job, cancel_job (the API)      *)
(*   gmail_service.py  GmailService (provider calls under tenacity retry)  *)
(*   classifier.py     EmailClassifier (rule pass, model fallback)         *)
(***************************************************************************)
EXTENDS Integers, Sequences, FiniteSets, TLC

(***************************************************************************)
(* Program constants                                                       *)
(***************************************************************************)
CheckpointEvery == 10
MaxAttempts == 3
GMAIL_MAX_RESULTS == 500
PageSize == 500
MaxErrorsStored == 100

(***************************************************************************)
(* Bounds of the model                                                     *)
(***************************************************************************)
MaxAvail == 2
MaxFaults == 1
MaxCancels == 1
MaxN == 3
MaxListAvail == 3
MaxLabelCalls == 2
MaxLabelFaults == 2
MaxParts == 2
MaxPoolMessages == 2

None == "None"

PENDING == "pending"
RUNNING == "running"
COMPLETED == "completed"
FAILED == "failed"
CANCELLED == "cancelled"

JobStatus ==
  {PENDING, RUNNING, COMPLETED, FAILED, CANCELLED}

Terminal ==
  {COMPLETED, FAILED, CANCELLED}

Min(a, b) ==
  IF a <= b THEN a ELSE b

(***************************************************************************)
(* classifier.py                                                           *)
(***************************************************************************)
CATEGORIES ==
  [work      |-> {"meeting", "project", "deadline", "report", "team", "office"},
   personal  |-> {"family", "friend", "dinner", "party", "birthday"},
   promotion |-> {"sale", "discount", "offer", "deal", "promo", "coupon"},
   spam      |-> {"lottery", "winner", "urgent", "verify", "click here", "congratulations"},
   finance   |-> {"invoice", "payment", "transaction", "bank", "credit", "debit"},
   security  |-> {"password", "security", "alert", "verify", "authentication", "login"}]

Categories ==
  DOMAIN CATEGORIES

\* A text is the set of catalog keywords that occur in it ("keyword in text").
score(text, category) ==
  Cardinality(text \cap CATEGORIES[category])

rule_based_classify_work_first(text) ==
  IF score(text, "work") >= 2 THEN "work"
  ELSE IF score(text, "spam") >= 2 THEN "spam"
  ELSE IF score(text, "security") >= 2 THEN "security"
  ELSE IF score(text, "finance") >= 1 THEN "finance"
  ELSE IF score(text, "promotion") >= 2 THEN "promotion"
  ELSE None

rule_based_classify(text) ==
  IF score(text, "spam") >= 2 THEN "spam"
  ELSE IF score(text, "security") >= 2 THEN "security"
  ELSE IF score(text, "finance") >= 1 THEN "finance"
  ELSE IF score(text, "promotion") >= 2 THEN "promotion"
  ELSE IF score(text, "work") >= 2 THEN "work"
  ELSE None

\* prediction: the label model.predict gives, None, or "raise" when it throws.
ml_classify(model, prediction) ==
  IF model = None THEN None
  ELSE IF prediction = "raise" THEN None
  ELSE prediction

classify_no_default(text, mode, model, prediction) ==
  IF rule_based_classify(text) # None THEN rule_based_classify(text)
  ELSE IF mode # "fast" /\ model # None /\ ml_classify(model, prediction) # None
       THEN ml_classify(model, prediction)
  ELSE None

classify_model_first(text, mode, model, prediction) ==
  IF mode # "fast" /\ model # None /\ ml_classify(model, prediction) # None
  THEN ml_classify(model, prediction)
  ELSE IF rule_based_classify(text) # None THEN rule_based_classify(text)
  ELSE "personal"

classify(text, mode, model, prediction) ==
  IF rule_based_classify(text) # None THEN rule_based_classify(text)
  ELSE IF mode # "fast" /\ model # None /\ ml_classify(model, prediction) # None
       THEN ml_classify(model, prediction)
  ELSE "personal"

(***************************************************************************)
(* gmail_service.py: one provider call per attempt, outcomes per attempt   *)
(***************************************************************************)
Outcomes ==
  {"ok", "http_transient", "http_permanent", "other"}

IsHttpError(o) ==
  o \in {"http_transient", "http_permanent"}

\* plan[n] is what the provider does on attempt n of this call.
AttemptPlans ==
  [1..MaxAttempts -> Outcomes]

RECURSIVE detail_attempt(_, _)
detail_attempt(plan, n) ==
  IF plan[n] = "ok" THEN [kind |-> "detail", calls |-> n]
  ELSE IF IsHttpError(plan[n]) THEN [kind |-> "absent", calls |-> n]
  ELSE IF n >= MaxAttempts THEN [kind |-> "raise", calls |-> n]
  ELSE detail_attempt(plan, n + 1)

get_message_detail(plan) ==
  detail_attempt(plan, 1)

RECURSIVE apply_attempt_four(_, _)
apply_attempt_four(plan, n) ==
  IF plan[Min(n, MaxAttempts)] = "ok" THEN [kind |-> "true", calls |-> n]
  ELSE IF IsHttpError(plan[Min(n, MaxAttempts)]) THEN [kind |-> "false", calls |-> n]
  ELSE IF n >= MaxAttempts + 1 THEN [kind |-> "raise", calls |-> n]
  ELSE apply_attempt_four(plan, n + 1)

RECURSIVE apply_attempt(_, _)
apply_attempt(plan, n) ==
  IF plan[n] = "ok" THEN [kind |-> "true", calls |-> n]
  ELSE IF IsHttpError(plan[n]) THEN [kind |-> "false", calls |-> n]
  ELSE IF n >= MaxAttempts THEN [kind |-> "raise", calls |-> n]
  ELSE apply_attempt(plan, n + 1)

apply_label(plan) ==
  apply_attempt(plan, 1)

\* One attempt of get_messages: the pagination loop.  avail is the ordered
\* list of ids the query matches, chunk the most ids the provider puts on a
\* page, failAt the page whose list call fails (0: none).
RECURSIVE paginate(_, _, _, _, _, _)
paginate(max_results, avail, chunk, failAt, message_ids, page) ==
  IF ~(Len(message_ids) < max_results)
  THEN [ok |-> TRUE, ids |-> SubSeq(message_ids, 1, Min(max_results, Len(message_ids)))]
  ELSE IF page = failAt THEN [ok |-> FALSE, ids |-> << >>]
  ELSE LET maxResults == Min(PageSize, max_results - Len(message_ids))
           from == Len(message_ids)
           upto == Min(Len(avail), from + Min(maxResults, chunk))
           got == message_ids \o SubSeq(avail, from + 1, upto)
           nextPageToken == upto < Len(avail)
       IN IF ~nextPageToken
          THEN [ok |-> TRUE, ids |-> SubSeq(got, 1, Min(max_results, Len(got)))]
          ELSE paginate(max_results, avail, chunk, failAt, got, page + 1)

\* The ids the attempts before attempt n had gathered when they failed.
RECURSIVE gathered_before(_, _, _, _)
gathered_before(avail, chunk, plan, n) ==
  IF n <= 1 THEN << >>
  ELSE gathered_before(avail, chunk, plan, n - 1)
         \o SubSeq(avail, 1, Min(Len(avail), (plan[n - 1].failAt - 1) * Min(chunk, PageSize)))

RECURSIVE messages_attempt_carry(_, _, _, _, _)
messages_attempt_carry(max_results, avail, chunk, plan, n) ==
  LET r == paginate(max_results, avail, chunk, plan[n].failAt, << >>, 1)
      ids == gathered_before(avail, chunk, plan, n) \o r.ids
  IN IF r.ok THEN [kind |-> "ids", ids |-> SubSeq(ids, 1, Min(max_results, Len(ids))),
                   calls |-> n]
     ELSE IF ~IsHttpError(plan[n].err)
          THEN [kind |-> "raise", ids |-> << >>, calls |-> n]
     ELSE IF n >= MaxAttempts
          THEN [kind |-> "raise", ids |-> << >>, calls |-> n]
     ELSE messages_attempt_carry(max_results, avail, chunk, plan, n + 1)

\* plan[n] = [failAt, err]: attempt n fails at page failAt with err.  Each
\* attempt runs the whole body: message_ids = [], page_token = None.
RECURSIVE messages_attempt(_, _, _, _, _)
messages_attempt(max_results, avail, chunk, plan, n) ==
  LET r == paginate(max_results, avail, chunk, plan[n].failAt, << >>, 1)
  IN IF r.ok THEN [kind |-> "ids", ids |-> r.ids, calls |-> n]
     ELSE IF ~IsHttpError(plan[n].err)
          THEN [kind |-> "raise", ids |-> << >>, calls |-> n]
     ELSE IF n >= MaxAttempts
          THEN [kind |-> "raise", ids |-> << >>, calls |-> n]
     ELSE messages_attempt(max_results, avail, chunk, plan, n + 1)

\* max_results is an integer here; "max_results or default" takes the default
\* for every falsy value, which for an integer is 0.
get_messages(max_results, avail, chunk, plan) ==
  LET effective == IF max_results = 0 THEN GMAIL_MAX_RESULTS ELSE max_results
  IN messages_attempt(effective, avail, chunk, plan, 1)

(***************************************************************************)
(* State                                                                   *)
(***************************************************************************)
VARIABLES
  job,       \* the Job row as committed in the database (models.py Job)
  users,     \* ids of the rows of the users table
  api,       \* position of start_classification_job
  cancel,    \* position of cancel_job and what it read
  revoked,   \* a revoke(terminate=True) broadcast was sent for the task
  w,         \* the worker execution of classify_emails_task
  labelled,  \* provider state: ids of the messages a label was applied to
  progress,  \* PROGRESS notifications emitted (update_state), in order
  mailbox,   \* provider state: the texts of the messages the scope matches
  classifier,\* [mode, model] of the EmailClassifier the job uses
  faults,    \* per-message provider faults the run may still meet
  hist,      \* history: what was persisted when, what cancel_job saw
  svc,       \* the last direct GmailService or classifier call and its result
  lab,       \* provider labels and the create_label calls in progress
  pool       \* the rows and task executions of jobs run side by side

vars ==
  <<job, users, api, cancel, revoked, w, labelled, progress, mailbox,
    classifier, faults, hist, svc, lab, pool>>

TheUser == "u1"
TheTask == "t1"

SpamText == {"lottery", "winner"}
PlainText == {}
WorkText == {"meeting", "project"}

SampleTexts ==
  {SpamText, PlainText}

\* Two checkpoint periods of rule-matched messages.
LongMailbox ==
  [i \in 1..(2 * CheckpointEvery) |-> SpamText]

\* One message more than the stored errors list keeps.
BigMailbox ==
  [i \in 1..(MaxErrorsStored + 1) |-> SpamText]

\* Three messages: spam keywords, no rule match, work keywords.
MixedMailbox ==
  <<SpamText, PlainText, WorkText>>

Mailboxes ==
  UNION {[1..n -> SampleTexts] : n \in 0..MaxAvail}
    \cup {LongMailbox, BigMailbox, MixedMailbox}

\* EmailClassifier.__init__: the model is loaded only in balanced/accurate.
Classifiers ==
  {[mode |-> "fast", model |-> None]}
    \cup [mode : {"balanced", "accurate"}, model : {None, "loaded"}]

Predictions ==
  {"work", "newsletter", None, "raise"}

OkPlan ==
  [n \in 1..MaxAttempts |-> "ok"]

\* The provider behaviours a job run draws for one call.
JobPlans ==
  {OkPlan,
   [n \in 1..MaxAttempts |-> "http_transient"],
   [n \in 1..MaxAttempts |-> "other"],
   [n \in 1..MaxAttempts |-> IF n < MaxAttempts THEN "other" ELSE "ok"]}

\* The provider is unreachable: every call fails with an HttpError.
DownPlan ==
  [n \in 1..MaxAttempts |-> "http_transient"]

NoFail ==
  [failAt |-> 0, err |-> "ok"]

ListPlans ==
  {[n \in 1..MaxAttempts |-> NoFail],
   [n \in 1..MaxAttempts |-> [failAt |-> 1, err |-> "http_transient"]],
   [n \in 1..MaxAttempts |-> IF n = 1 THEN [failAt |-> 1, err |-> "http_transient"] ELSE NoFail],
   [n \in 1..MaxAttempts |-> [failAt |-> 1, err |-> "other"]]}

EmptyCounts ==
  [c \in {} |-> 0]

NoJob ==
  [exists |-> FALSE, user_id |-> None, status |-> None, celery_task_id |-> None,
   total_emails |-> 0, processed_emails |-> 0, error_count |-> 0,
   category_counts |-> EmptyCounts, errors |-> << >>, completed_at |-> FALSE]

\* models.py Job: the column defaults of a new row.
NewJob(user_id) ==
  [exists |-> TRUE, user_id |-> user_id, status |-> PENDING, celery_task_id |-> None,
   total_emails |-> 0, processed_emails |-> 0, error_count |-> 0,
   category_counts |-> EmptyCounts, errors |-> << >>, completed_at |-> FALSE]

IdleWorker ==
  [pc |-> "none", result |-> None, fatal |-> None, last |-> None, idx |-> 0,
   message_ids |-> << >>, label_cache |-> EmptyCounts,
   category_counts |-> EmptyCounts, errors |-> << >>,
   processed_emails |-> 0, error_count |-> 0, job_category_counts |-> EmptyCounts]

NoCall ==
  [op |-> None]

NoLabels ==
  [op |-> None]

NoPool ==
  [op |-> None]

Init ==
  /\ job = NoJob
  /\ users = {TheUser}
  /\ api = "start"
  /\ cancel \in [pc : {"idle"}, left : {0, MaxCancels}, response : {None}]
  /\ revoked = FALSE
  /\ w = IdleWorker
  /\ labelled = {}
  /\ progress = << >>
  /\ mailbox \in Mailboxes
  /\ classifier \in Classifiers
  /\ (mailbox \in {LongMailbox, BigMailbox, MixedMailbox} => classifier.mode = "fast")
  /\ faults \in [left : {0, MaxFaults}, outage : {"never", "possible"}]
  \* A long run meets provider faults or a cancel request, a short run both;
  \* the run over the big mailbox meets a provider outage that lasts.
  /\ IF mailbox = BigMailbox
     THEN faults.outage = "possible" /\ faults.left = 0 /\ cancel.left = 0
     ELSE IF mailbox = LongMailbox
     THEN faults.outage = "never" /\ ((faults.left = 0) # (cancel.left = 0))
     ELSE faults.outage = "never" /\ faults.left = MaxFaults /\ cancel.left = MaxCancels
  /\ hist = [persisted |-> 0, cancelAt |-> 0, cancelledPending |-> FALSE,
             failures |-> 0]
  /\ svc = NoCall
  /\ lab = NoLabels
  /\ pool = NoPool

(***************************************************************************)
(* main.py: start_classification_job                                       *)
(***************************************************************************)
\* lines 463-472: the PENDING row is added and committed.
start_commit ==
  /\ api = "start"
  /\ TheUser \in users
  /\ job' = NewJob(TheUser)
  /\ api' = "committed"
  /\ UNCHANGED <<users, cancel, revoked, w, labelled, progress, mailbox,
                 classifier, faults, hist, svc, lab, pool>>

\* line 475: classify_emails_task.delay(...) puts the task on the broker.
start_enqueue ==
  /\ api = "committed"
  /\ w' = [IdleWorker EXCEPT !.pc = "queued"]
  /\ api' = "enqueued"
  /\ UNCHANGED <<job, users, cancel, revoked, labelled, progress, mailbox,
                 classifier, faults, hist, svc, lab, pool>>

\* main.py line 477: task.id of the AsyncResult that delay() returned.
result_id(task) ==
  task

\* lines 477-478: the task id is stored on the row (only that column).
start_store ==
  /\ api = "enqueued"
  /\ job' = [job EXCEPT !.celery_task_id = result_id(TheTask)]
  /\ api' = "stored"
  /\ UNCHANGED <<users, cancel, revoked, w, labelled, progress, mailbox,
                 classifier, faults, hist, svc, lab, pool>>

(***************************************************************************)
(* main.py: cancel_job, called by the job's owner                          *)
(***************************************************************************)
Cancellable(status) ==
  status \in {PENDING, RUNNING}

find_job_any_owner(row, user_id) ==
  row.exists

\* lines 497-501 and 523-527: filter(Job.id == job_id, Job.user_id ==
\* current_user.id).first() gives a row.
find_job(row, user_id) ==
  row.exists /\ row.user_id = user_id

\* lines 523-536: load the row, check the status, revoke the stored task id.
cancel_read ==
  /\ cancel.pc = "idle"
  /\ cancel.left > 0
  /\ TheUser \in users
  /\ IF ~find_job(job, TheUser)
     THEN /\ cancel' = [cancel EXCEPT !.left = @ - 1, !.response = "404"]
          /\ UNCHANGED <<revoked, hist>>
     ELSE IF ~Cancellable(job.status)
     THEN /\ cancel' = [cancel EXCEPT !.left = @ - 1, !.response = "400"]
          /\ UNCHANGED <<revoked, hist>>
     ELSE /\ cancel' = [cancel EXCEPT !.left = @ - 1, !.pc = "write", !.response = None]
          /\ revoked' = (revoked \/ job.celery_task_id # None)
          /\ hist' = [hist EXCEPT
                        !.cancelAt = IF w.pc = "loop" /\ w.idx < Len(w.message_ids)
                                     THEN w.idx + 1 ELSE 0,
                        !.cancelledPending = (job.status = PENDING)]
  /\ UNCHANGED <<job, users, api, w, labelled, progress, mailbox, classifier,
                 faults, svc, lab, pool>>

\* lines 538-539: status = CANCELLED, commit.
cancel_commit ==
  /\ cancel.pc = "write"
  /\ job' = [job EXCEPT !.status = CANCELLED]
  /\ cancel' = [cancel EXCEPT !.pc = "idle", !.response = "200"]
  /\ hist' = [hist EXCEPT !.cancelledPending = (@ /\ job.status = PENDING)]
  /\ UNCHANGED <<users, api, revoked, w, labelled, progress, mailbox,
                 classifier, faults, svc, lab, pool>>

\* The users table is storage outside the pipeline: a row can go away
\* after the job was created and before its task runs.
user_removed ==
  /\ job.exists
  /\ w.pc \in {"none", "queued"}
  /\ TheUser \in users
  /\ users' = users \ {TheUser}
  /\ UNCHANGED <<job, api, cancel, revoked, w, labelled, progress, mailbox,
                 classifier, faults, hist, svc, lab, pool>>

(***************************************************************************)
(* workers.py: classify_emails_task                                        *)
(***************************************************************************)
commit_without_counts(row, wk) ==
  [row EXCEPT !.processed_emails = wk.processed_emails,
              !.error_count = wk.error_count]

\* db.commit() of the worker session: the pending attribute changes of the
\* job object reach the row.
commit(row, wk) ==
  [row EXCEPT !.processed_emails = wk.processed_emails,
              !.error_count = wk.error_count,
              !.category_counts = wk.job_category_counts]

fail_job_keeps_status(row, text) ==
  [row EXCEPT !.errors = <<[error |-> text]>>]

\* lines 141-146: the handler of the outer try.
fail_job(row, text) ==
  [row EXCEPT !.status = FAILED, !.errors = <<[error |-> text]>>]

raised(wk, text) ==
  [wk EXCEPT !.pc = "done", !.result = "raised", !.fatal = text]

record_error_uncounted(wk, message_id, text) ==
  [wk EXCEPT !.errors = Append(@, [message_id |-> message_id, error |-> text])]

\* lines 96-97, 112-113, 131-132: one error record, one count.
record_error(wk, message_id, text) ==
  [wk EXCEPT !.errors = Append(@, [message_id |-> message_id, error |-> text]),
             !.error_count = @ + 1]

processed_count_added(wk, idx) ==
  wk.processed_emails + idx + 1

\* line 115: job.processed_emails = idx + 1.
processed_count(wk, idx) ==
  idx + 1

\* lines 93-132: the body of the loop for the message at index idx.
process_message(wk, idx, message_id, text, cls, dplan, aplan, prediction) ==
  LET detail == get_message_detail(dplan)
      category == classify(text, cls.mode, cls.model, prediction)
      label_id == IF category \in DOMAIN wk.label_cache
                  THEN wk.label_cache[category] ELSE None
      success == apply_label(aplan)
  IN IF detail.kind = "absent"
     THEN [w |-> [record_error(wk, message_id, "Failed to fetch") EXCEPT !.last = "absent"],
           label |-> None, commit |-> FALSE]
     ELSE IF detail.kind = "raise"
     THEN [w |-> [record_error(wk, message_id, "RetryError") EXCEPT !.last = "fetch_raised"],
           label |-> None, commit |-> FALSE]
     ELSE IF label_id # None /\ success.kind = "raise"
     THEN [w |-> [record_error(wk, message_id, "RetryError") EXCEPT !.last = "apply_raised"],
           label |-> None, commit |-> FALSE]
     ELSE LET w1 == IF label_id = None THEN [wk EXCEPT !.last = "no_label"]
                    ELSE IF success.kind = "true"
                    THEN [wk EXCEPT !.category_counts[category] = @ + 1, !.last = "labelled"]
                    ELSE [record_error(wk, message_id, "Failed to apply label")
                            EXCEPT !.last = "apply_false"]
          IN [w |-> [w1 EXCEPT !.processed_emails = processed_count(w1, idx),
                               !.job_category_counts = w1.category_counts],
              label |-> IF label_id # None /\ success.kind = "true" THEN label_id ELSE None,
              commit |-> ((idx + 1) % CheckpointEvery = 0)]

Executing ==
  {"refresh", "list", "labels", "loop"}

\* The outcomes of an iteration that the per-message handler records.
MessageFailed ==
  {"absent", "fetch_raised", "apply_false", "apply_raised"}

stored_errors_last(errors) ==
  SubSeq(errors, Len(errors) - Min(MaxErrorsStored, Len(errors)) + 1, Len(errors))

\* line 136: job.errors = errors[:100].
stored_errors(errors) ==
  SubSeq(errors, 1, Min(MaxErrorsStored, Len(errors)))

request_id_of_job(task) ==
  "job1"

\* workers.py line 63: self.request.id of the executing task.
request_id(task) ==
  task

\* lines 52-64: load job and user; return if either is missing, else RUNNING.
worker_load ==
  /\ w.pc = "queued"
  /\ IF ~job.exists \/ TheUser \notin users
     THEN /\ w' = [w EXCEPT !.pc = "done", !.result = "not_found"]
          /\ UNCHANGED job
     ELSE /\ job' = [job EXCEPT !.status = RUNNING, !.celery_task_id = request_id(TheTask)]
          /\ w' = [w EXCEPT !.pc = "refresh",
                            !.processed_emails = job.processed_emails,
                            !.error_count = job.error_count,
                            !.job_category_counts = job.category_counts]
  /\ UNCHANGED <<users, api, cancel, revoked, labelled, progress, mailbox,
                 classifier, faults, hist, svc, lab, pool>>

\* lines 67-71: refresh_google_token, GmailService, EmailClassifier.
worker_refresh ==
  /\ w.pc = "refresh"
  /\ \E ok \in BOOLEAN :
       IF ok
       THEN /\ w' = [w EXCEPT !.pc = "list"]
            /\ UNCHANGED job
       ELSE /\ w' = raised(w, "RefreshError")
            /\ job' = fail_job(commit(job, w), "RefreshError")
  /\ UNCHANGED <<users, api, cancel, revoked, labelled, progress, mailbox,
                 classifier, faults, hist, svc, lab, pool>>

\* The page lengths the provider may choose for a listing of n ids: full
\* pages, or short ones (one id a page, ten a page for a large listing).
PageLengths(n) ==
  {PageSize, IF n <= 2 * CheckpointEvery THEN 1 ELSE CheckpointEvery}

\* lines 74-78: list the ids, set total_emails, commit.
worker_list ==
  /\ w.pc = "list"
  /\ \E plan \in ListPlans, chunk \in PageLengths(Len(mailbox)) :
       LET ids == [i \in 1..Len(mailbox) |-> i]
           r == get_messages(GMAIL_MAX_RESULTS, ids, chunk, plan)
           text == IF IsHttpError(plan[r.calls].err) THEN "RetryError" ELSE "Exception"
       IN IF r.kind = "ids"
          THEN /\ w' = [w EXCEPT !.pc = "labels", !.message_ids = r.ids]
               /\ job' = [commit(job, w) EXCEPT !.total_emails = Len(r.ids)]
          ELSE /\ w' = raised(w, text)
               /\ job' = fail_job(commit(job, w), text)
  /\ UNCHANGED <<users, api, cancel, revoked, labelled, progress, mailbox,
                 classifier, faults, hist, svc, lab, pool>>

\* CATEGORIES.keys(): the order of the dict literal.
CategoryOrder ==
  <<"work", "personal", "promotion", "spam", "finance", "security">>

labels_done_early(label_cache) ==
  DOMAIN label_cache # {}

\* lines 84-86: the for loop over the categories has run through.
labels_done(label_cache) ==
  DOMAIN label_cache = Categories

\* lines 82-90: create_label for the next category (its id is written as
\* the category's name); after the last one the empty tallies.
worker_labels ==
  /\ w.pc = "labels"
  /\ \E ok \in BOOLEAN :
       LET category == CategoryOrder[Cardinality(DOMAIN w.label_cache) + 1]
           label_cache == [c \in DOMAIN w.label_cache \cup {category} |-> c]
       IN IF ok
          THEN /\ w' = IF labels_done(label_cache)
                       THEN [w EXCEPT !.pc = "loop", !.idx = 0,
                                      !.label_cache = label_cache,
                                      !.category_counts = [c \in Categories |-> 0],
                                      !.errors = << >>]
                       ELSE [w EXCEPT !.label_cache = label_cache]
               /\ UNCHANGED job
          ELSE /\ w' = raised(w, "RetryError")
               /\ job' = fail_job(commit(job, w), "RetryError")
  /\ UNCHANGED <<users, api, cancel, revoked, labelled, progress, mailbox,
                 classifier, faults, hist, svc, lab, pool>>

message_at_first(message_ids, idx) ==
  message_ids[1]

\* line 92: enumerate(message_ids).
message_at(message_ids, idx) ==
  message_ids[idx + 1]

\* lines 92-132: one iteration of the loop.
worker_message ==
  /\ w.pc = "loop"
  /\ w.idx < Len(w.message_ids)
  /\ \E dplan \in JobPlans, aplan \in JobPlans, prediction \in Predictions,
        begins \in BOOLEAN :
       LET message_id == message_at(w.message_ids, w.idx)
           down == faults.outage = "on" \/ begins
           faulty == IF ~down /\ (dplan # OkPlan \/ aplan # OkPlan) THEN 1 ELSE 0
           r == process_message(w, w.idx, message_id, mailbox[message_id],
                                classifier, dplan, aplan, prediction)
           failed == IF r.w.last \in MessageFailed THEN 1 ELSE 0
       IN /\ begins => faults.outage = "possible"
          /\ down => (dplan = DownPlan /\ aplan = DownPlan)
          /\ faulty <= faults.left
          /\ faults' = [left |-> faults.left - faulty,
                        outage |-> IF down THEN "on" ELSE faults.outage]
          /\ w' = [r.w EXCEPT !.idx = w.idx + 1]
          /\ labelled' = IF r.label # None THEN labelled \cup {message_id} ELSE labelled
          /\ IF r.commit
             THEN /\ job' = commit(job, r.w)
                  /\ progress' = Append(progress, w.idx + 1)
                  /\ hist' = [hist EXCEPT !.persisted = w.idx + 1,
                                          !.failures = @ + failed]
             ELSE /\ UNCHANGED <<job, progress>>
                  /\ hist' = [hist EXCEPT !.failures = @ + failed]
  /\ UNCHANGED <<users, api, cancel, revoked, mailbox, classifier, svc, lab, pool>>

\* lines 134-137, and 141-146 when the final commit fails and is rolled back.
worker_finalize ==
  /\ w.pc = "loop"
  /\ w.idx = Len(w.message_ids)
  /\ \E ok \in BOOLEAN :
       IF ok
       THEN /\ job' = [commit(job, w) EXCEPT
                         !.status = COMPLETED,
                         !.completed_at = TRUE,
                         !.errors = stored_errors(w.errors)]
            /\ w' = [w EXCEPT !.pc = "done", !.result = "returned"]
            /\ hist' = [hist EXCEPT !.persisted = w.idx]
       ELSE /\ job' = fail_job(job, "OperationalError")
            /\ w' = raised(w, "OperationalError")
            /\ UNCHANGED hist
  /\ UNCHANGED <<users, api, cancel, revoked, labelled, progress, mailbox,
                 classifier, faults, svc, lab, pool>>

\* revoke reaches the worker before the task starts: the task is dropped.
task_discard ==
  /\ w.pc = "queued"
  /\ revoked
  /\ w' = [w EXCEPT !.pc = "done", !.result = "revoked"]
  /\ UNCHANGED <<job, users, api, cancel, revoked, labelled, progress, mailbox,
                 classifier, faults, hist, svc, lab, pool>>

\* revoke(terminate=True) reaches the worker while the task executes: the
\* process is killed where it stands, uncommitted changes are lost.
task_terminate ==
  /\ w.pc \in Executing
  /\ revoked
  /\ w' = [w EXCEPT !.pc = "done", !.result = "killed"]
  /\ UNCHANGED <<job, users, api, cancel, revoked, labelled, progress, mailbox,
                 classifier, faults, hist, svc, lab, pool>>

Next ==
  \/ start_commit
  \/ start_enqueue
  \/ start_store
  \/ cancel_read
  \/ cancel_commit
  \/ user_removed
  \/ worker_load
  \/ worker_refresh
  \/ worker_list
  \/ worker_labels
  \/ worker_message
  \/ worker_finalize
  \/ task_discard
  \/ task_terminate

Spec ==
  Init /\ [][Next]_vars

(***************************************************************************)
(* GmailService called directly, one call after another                    *)
(***************************************************************************)
ListErrors ==
  {"http_transient", "http_permanent", "other"}

\* What the provider does to one attempt of get_messages.
ListAttempts ==
  {NoFail} \cup [failAt : 1..2, err : ListErrors]

call_get_messages ==
  /\ svc = NoCall
  /\ \E max_results \in 0..MaxN, n \in 0..MaxListAvail, chunk \in 1..2,
        plan \in [1..MaxAttempts -> ListAttempts] :
       svc' = [op |-> "get_messages", max_results |-> max_results, available |-> n,
               plan |-> plan,
               result |-> get_messages(max_results, [i \in 1..n |-> i], chunk, plan)]
  /\ UNCHANGED <<job, users, api, cancel, revoked, w, labelled, progress,
                 mailbox, classifier, faults, hist, lab, pool>>

call_get_message_detail ==
  /\ svc = NoCall
  /\ \E plan \in AttemptPlans :
       svc' = [op |-> "get_message_detail", plan |-> plan,
               result |-> get_message_detail(plan)]
  /\ UNCHANGED <<job, users, api, cancel, revoked, w, labelled, progress,
                 mailbox, classifier, faults, hist, lab, pool>>

call_apply_label ==
  /\ svc = NoCall
  /\ \E plan \in AttemptPlans :
       svc' = [op |-> "apply_label", plan |-> plan, result |-> apply_label(plan)]
  /\ UNCHANGED <<job, users, api, cancel, revoked, w, labelled, progress,
                 mailbox, classifier, faults, hist, lab, pool>>

\* The caller has the result; the service takes the next call.
call_returned ==
  /\ svc # NoCall
  /\ svc' = NoCall
  /\ UNCHANGED <<job, users, api, cancel, revoked, w, labelled, progress,
                 mailbox, classifier, faults, hist, lab, pool>>

InitSvc ==
  /\ Init
  /\ mailbox = << >>
  /\ classifier.mode = "fast"

(***************************************************************************)
(* EmailClassifier.classify called directly                                *)
(***************************************************************************)
\* The catalog keywords the texts are made of: two per rule category (one
\* of them in both the spam and the security list) and one personal one.
Vocabulary ==
  {"lottery", "winner", "verify", "password", "invoice", "sale", "discount",
   "meeting", "project", "family"}

call_classify ==
  /\ svc = NoCall
  /\ \E text \in SUBSET Vocabulary, cls \in Classifiers, prediction \in Predictions :
       svc' = [op |-> "classify", text |-> text, mode |-> cls.mode,
               model |-> cls.model, prediction |-> prediction,
               result |-> classify(text, cls.mode, cls.model, prediction)]
  /\ UNCHANGED <<job, users, api, cancel, revoked, w, labelled, progress,
                 mailbox, classifier, faults, hist, lab, pool>>

NextClassify ==
  \/ call_classify
  \/ call_returned

SpecClassify ==
  InitSvc /\ [][NextClassify]_vars

(***************************************************************************)
(* GmailService.create_label, called by jobs that share one mailbox        *)
(***************************************************************************)
Jobs ==
  {"jobA", "jobB"}

\* workers.py line 85: "Cloudidian/" + category.capitalize().
LabelNames ==
  {"Cloudidian/Spam", "Cloudidian/Work"}

\* str.lower() on the label names that occur.
lower(name) ==
  CASE name = "Cloudidian/Spam" -> "cloudidian/spam"
    [] name = "Cloudidian/Work" -> "cloudidian/work"
    [] name = "INBOX" -> "inbox"
    [] OTHER -> name

\* What the mailbox holds before the first call: nothing, the user's own
\* label in another case, or an unrelated label.
ProviderLabels ==
  {{}, {[id |-> 1, name |-> "cloudidian/spam"]}, {[id |-> 1, name |-> "INBOX"]}}

NoResult ==
  [kind |-> None, id |-> 0]

IdleCaller ==
  [pc |-> "idle", attempt |-> 0, name |-> None, left |-> MaxLabelCalls,
   result |-> NoResult]

label_matches_any(label, label_name) ==
  TRUE

\* line 132: label["name"].lower() == label_name.lower().
label_matches(label, label_name) ==
  lower(label.name) = lower(label_name)

\* The provider refuses a second label of the same name (409 conflict).
provider_conflicts(labels, label_name) ==
  \E l \in labels : lower(l.name) = lower(label_name)

\* tenacity: the attempt raised; call again unless it was the third attempt.
label_retry(c) ==
  IF c.attempt >= MaxAttempts
  THEN [c EXCEPT !.pc = "idle", !.result = [kind |-> "raise", id |-> 0]]
  ELSE [c EXCEPT !.pc = "list", !.attempt = @ + 1]

label_return(c, id) ==
  [c EXCEPT !.pc = "idle", !.result = [kind |-> "id", id |-> id]]

\* A job calls create_label(label_name).
label_call(j) ==
  /\ lab.job[j].pc = "idle"
  /\ lab.job[j].left > 0
  /\ \E name \in LabelNames :
       lab' = [lab EXCEPT !.job[j] = [pc |-> "list", attempt |-> 1, name |-> name,
                                      left |-> lab.job[j].left - 1,
                                      result |-> NoResult]]
  /\ UNCHANGED <<job, users, api, cancel, revoked, w, labelled, progress,
                 mailbox, classifier, faults, hist, svc, pool>>

\* lines 131-135: labels().list(), then the search for the name.
label_list(j) ==
  /\ lab.job[j].pc = "list"
  /\ \E ok \in BOOLEAN :
       LET c == lab.job[j]
           found == {l \in lab.labels : label_matches(l, c.name)}
           id == (CHOOSE l \in found : TRUE).id
       IN /\ ~ok => lab.faults > 0
          /\ lab' = IF ~ok
                    THEN [lab EXCEPT !.job[j] = label_retry(c), !.faults = @ - 1]
                    ELSE IF found # {}
                    THEN [lab EXCEPT !.job[j] = label_return(c, id),
                                     !.returned = @ \cup {[name |-> c.name, id |-> id]}]
                    ELSE [lab EXCEPT !.job[j].pc = "create"]
  /\ UNCHANGED <<job, users, api, cancel, revoked, w, labelled, progress,
                 mailbox, classifier, faults, hist, svc, pool>>

\* lines 137-151: labels().create().  The call can fail before the provider
\* acts ("failed"), or after it ("lost": the label exists, the call raised).
label_create(j) ==
  /\ lab.job[j].pc = "create"
  /\ \E outcome \in {"ok", "failed", "lost"} :
       LET c == lab.job[j]
           id == Cardinality(lab.labels) + 1
           conflict == provider_conflicts(lab.labels, c.name)
           issued == [lab EXCEPT !.creates[c.name] = @ + 1]
           made == [issued EXCEPT !.labels = @ \cup {[id |-> id, name |-> c.name]},
                                  !.created[c.name] = @ + 1]
       IN /\ outcome # "ok" => lab.faults > 0
          /\ lab' = IF outcome = "failed"
                    THEN [issued EXCEPT !.job[j] = label_retry(c), !.faults = @ - 1]
                    ELSE IF conflict
                    THEN [issued EXCEPT !.job[j] = label_retry(c),
                                        !.faults = IF outcome = "ok" THEN @ ELSE @ - 1]
                    ELSE IF outcome = "lost"
                    THEN [made EXCEPT !.job[j] = label_retry(c), !.faults = @ - 1]
                    ELSE [made EXCEPT !.job[j] = label_return(c, id),
                                      !.returned = @ \cup {[name |-> c.name, id |-> id]}]
  /\ UNCHANGED <<job, users, api, cancel, revoked, w, labelled, progress,
                 mailbox, classifier, faults, hist, svc, pool>>

InitLabel ==
  /\ job = NoJob
  /\ users = {TheUser}
  /\ api = "start"
  /\ cancel = [pc |-> "idle", left |-> 0, response |-> None]
  /\ revoked = FALSE
  /\ w = IdleWorker
  /\ labelled = {}
  /\ progress = << >>
  /\ mailbox = << >>
  /\ classifier = [mode |-> "fast", model |-> None]
  /\ faults = [left |-> 0, outage |-> "never"]
  /\ hist = [persisted |-> 0, cancelAt |-> 0, cancelledPending |-> FALSE,
             failures |-> 0]
  /\ svc = NoCall
  /\ \E labels \in ProviderLabels :
       lab = [op |-> "create_label", labels |-> labels,
              job |-> [j \in Jobs |-> IdleCaller],
              creates |-> [n \in LabelNames |-> 0],
              created |-> [n \in LabelNames |-> 0],
              returned |-> {}, faults |-> MaxLabelFaults]
  /\ pool = NoPool

NextLabel ==
  \/ \E j \in Jobs : label_call(j)
  \/ \E j \in Jobs : label_list(j)
  \/ \E j \in Jobs : label_create(j)

SpecLabel ==
  InitLabel /\ [][NextLabel]_vars

\* One call of create_label by one caller, attempt after attempt.  plan[n]
\* says which provider call of attempt n fails, if any.
LabelAttempts ==
  {"ok", "list_fails", "create_fails"}

RECURSIVE create_attempt(_, _, _, _)
create_attempt(labels, label_name, plan, n) ==
  LET found == {l \in labels : label_matches(l, label_name)}
      again == IF n >= MaxAttempts THEN [kind |-> "raise", id |-> 0, calls |-> n]
               ELSE create_attempt(labels, label_name, plan, n + 1)
  IN IF plan[n] = "list_fails" THEN again
     ELSE IF found # {}
     THEN [kind |-> "id", id |-> (CHOOSE l \in found : TRUE).id, calls |-> n]
     ELSE IF plan[n] = "create_fails" THEN again
     ELSE [kind |-> "id", id |-> Cardinality(labels) + 1, calls |-> n]

create_label(labels, label_name, plan) ==
  create_attempt(labels, label_name, plan, 1)

call_create_label ==
  /\ svc = NoCall
  /\ \E labels \in ProviderLabels, label_name \in LabelNames,
        plan \in [1..MaxAttempts -> LabelAttempts] :
       svc' = [op |-> "create_label", plan |-> plan,
               result |-> create_label(labels, label_name, plan)]
  /\ UNCHANGED <<job, users, api, cancel, revoked, w, labelled, progress,
                 mailbox, classifier, faults, hist, lab, pool>>

NextSvc ==
  \/ call_get_messages
  \/ call_get_message_detail
  \/ call_apply_label
  \/ call_create_label
  \/ call_returned

SpecSvc ==
  InitSvc /\ [][NextSvc]_vars

(***************************************************************************)
(* gmail_service.py: what get_message_detail makes of a fetched message    *)
(***************************************************************************)
\* A part of a payload: its MIME type, its body data ("" when it has none)
\* and its sub-parts (<< >> when it has no "parts" key).
Leaf(mimeType, data) ==
  [mimeType |-> mimeType, data |-> data, parts |-> << >>]

LeafParts ==
  {Leaf("text/plain", ""), Leaf("text/plain", "plain one"),
   Leaf("text/plain", "plain two"), Leaf("text/html", "html")}

PartLists(S) ==
  UNION {[1..n -> S] : n \in 1..MaxParts}

\* Containers of leaves, with or without body data of their own.
InnerParts ==
  [mimeType : {"multipart/alternative"}, data : {"", "own data"},
   parts : PartLists(LeafParts)]

Payloads ==
  LeafParts \cup InnerParts
    \cup [mimeType : {"multipart/mixed"}, data : {""},
          parts : PartLists(LeafParts \cup InnerParts)]

HeaderLists ==
  {<<[name |-> s, value |-> "the subject"], [name |-> f, value |-> "the sender"]>> :
     s \in {"Subject", "subject", "SUBJECT"}, f \in {"From", "from", "FROM"}}
    \cup {<< >>}

\* lines 90-93 and dict.get: the value of the last header named name.
header_get(headers, name, default) ==
  LET at == {i \in 1..Len(headers) : headers[i].name = name}
  IN IF at = {} THEN default
     ELSE headers[CHOOSE i \in at : \A j \in at : j <= i].value

\* lines 112-126.
RECURSIVE extract_body(_)
RECURSIVE extract_from_parts(_, _)
extract_body(payload) ==
  IF payload.data # "" THEN payload.data
  ELSE IF Len(payload.parts) > 0 THEN extract_from_parts(payload.parts, 1)
  ELSE ""

extract_from_parts(parts, i) ==
  IF i > Len(parts) THEN ""
  ELSE LET part == parts[i]
       IN IF part.mimeType = "text/plain"
          THEN IF part.data # "" THEN part.data
               ELSE extract_from_parts(parts, i + 1)
          ELSE IF Len(part.parts) > 0 /\ extract_body(part) # ""
          THEN extract_body(part)
          ELSE extract_from_parts(parts, i + 1)

\* lines 90-106: the fields of the detail built from a fetched message.
call_message_fields ==
  /\ svc = NoCall
  /\ \E headers \in HeaderLists, payload \in Payloads :
       svc' = [op |-> "message_fields", headers |-> headers, payload |-> payload,
               result |-> [subject |-> header_get(headers, "Subject", ""),
                           from |-> header_get(headers, "From", ""),
                           body |-> extract_body(payload)]]
  /\ UNCHANGED <<job, users, api, cancel, revoked, w, labelled, progress,
                 mailbox, classifier, faults, hist, lab, pool>>

NextMessage ==
  \/ call_message_fields
  \/ call_returned

SpecMessage ==
  InitSvc /\ [][NextMessage]_vars

(***************************************************************************)
(* workers.py: two jobs executed side by side by the worker pool           *)
(***************************************************************************)
load_job_first(job_id) ==
  "jobA"

\* line 55: db.query(Job).filter(Job.id == job_id).first(): the row the
\* task reads and writes.
load_job(job_id) ==
  job_id

\* A task execution starts for job j: RUNNING on its row (lines 52-64).
pool_load(j) ==
  /\ pool.op = "jobs"
  /\ pool.run[j].pc = "queued"
  /\ LET id == load_job(j)
     IN pool' = [pool EXCEPT
                   !.rows[id] = [@ EXCEPT !.status = RUNNING, !.celery_task_id = j],
                   !.run[j] = [@ EXCEPT !.pc = "list",
                                        !.processed_emails = pool.rows[id].processed_emails,
                                        !.error_count = pool.rows[id].error_count,
                                        !.job_category_counts = pool.rows[id].category_counts]]
  /\ UNCHANGED <<job, users, api, cancel, revoked, w, labelled, progress,
                 mailbox, classifier, faults, hist, svc, lab>>

\* lines 67-90: the listing gives n ids and total_emails is committed, or a
\* step before the loop raises and the handler marks the row FAILED.
pool_list(j) ==
  /\ pool.op = "jobs"
  /\ pool.run[j].pc = "list"
  /\ \E n \in 0..MaxPoolMessages, ok \in BOOLEAN :
       LET id == load_job(j)
           wk == pool.run[j]
       IN pool' = IF ok
                  THEN [pool EXCEPT
                          !.rows[id] = [commit(@, wk) EXCEPT !.total_emails = n],
                          !.run[j] = [wk EXCEPT !.pc = "loop", !.idx = 0,
                                                !.message_ids = [i \in 1..n |-> i],
                                                !.category_counts = [c \in Categories |-> 0],
                                                !.errors = << >>]]
                  ELSE [pool EXCEPT
                          !.rows[id] = fail_job(commit(@, wk), "RetryError"),
                          !.run[j] = raised(wk, "RetryError")]
  /\ UNCHANGED <<job, users, api, cancel, revoked, w, labelled, progress,
                 mailbox, classifier, faults, hist, svc, lab>>

\* lines 92-132: one message, labelled as spam or failing at its fetch; the
\* changes stay in the session until the next commit.
pool_message(j) ==
  /\ pool.op = "jobs"
  /\ pool.run[j].pc = "loop"
  /\ pool.run[j].idx < Len(pool.run[j].message_ids)
  /\ \E fetched \in BOOLEAN :
       LET wk == pool.run[j]
           message_id == message_at(wk.message_ids, wk.idx)
           w1 == IF fetched
                 THEN [wk EXCEPT !.category_counts["spam"] = @ + 1,
                                 !.processed_emails = processed_count(wk, wk.idx),
                                 !.job_category_counts =
                                    [wk.category_counts EXCEPT !["spam"] = @ + 1]]
                 ELSE record_error(wk, message_id, "Failed to fetch")
       IN pool' = [pool EXCEPT !.run[j] = [w1 EXCEPT !.idx = wk.idx + 1]]
  /\ UNCHANGED <<job, users, api, cancel, revoked, w, labelled, progress,
                 mailbox, classifier, faults, hist, svc, lab>>

\* lines 134-137: COMPLETED, completed_at, the stored errors, commit.
pool_finalize(j) ==
  /\ pool.op = "jobs"
  /\ pool.run[j].pc = "loop"
  /\ pool.run[j].idx = Len(pool.run[j].message_ids)
  /\ LET id == load_job(j)
         wk == pool.run[j]
     IN pool' = [pool EXCEPT
                   !.rows[id] = [commit(@, wk) EXCEPT
                                   !.status = COMPLETED,
                                   !.completed_at = TRUE,
                                   !.errors = stored_errors(wk.errors)],
                   !.run[j] = [wk EXCEPT !.pc = "done", !.result = "returned"]]
  /\ UNCHANGED <<job, users, api, cancel, revoked, w, labelled, progress,
                 mailbox, classifier, faults, hist, svc, lab>>

\* Two committed PENDING rows, of one user or of two, their tasks queued.
InitPool ==
  /\ job = NoJob
  /\ users = {TheUser}
  /\ api = "start"
  /\ cancel = [pc |-> "idle", left |-> 0, response |-> None]
  /\ revoked = FALSE
  /\ w = IdleWorker
  /\ labelled = {}
  /\ progress = << >>
  /\ mailbox = << >>
  /\ classifier = [mode |-> "fast", model |-> None]
  /\ faults = [left |-> 0, outage |-> "never"]
  /\ hist = [persisted |-> 0, cancelAt |-> 0, cancelledPending |-> FALSE,
             failures |-> 0]
  /\ svc = NoCall
  /\ lab = NoLabels
  /\ \E other \in {TheUser, "u2"} :
       pool = [op |-> "jobs",
               rows |-> [j \in Jobs |-> NewJob(IF j = "jobA" THEN TheUser ELSE other)],
               run |-> [j \in Jobs |-> [IdleWorker EXCEPT !.pc = "queued"]]]

NextPool ==
  \/ \E j \in Jobs : pool_load(j)
  \/ \E j \in Jobs : pool_list(j)
  \/ \E j \in Jobs : pool_message(j)
  \/ \E j \in Jobs : pool_finalize(j)

SpecPool ==
  InitPool /\ [][NextPool]_vars

(***************************************************************************)
(* main.py: get_job_status and cancel_job called on a stored job           *)
(***************************************************************************)
\* The job rows a caller may name: any owner, status and progress, with or
\* without a stored task id.
StoredJobs ==
  {[NewJob(owner) EXCEPT !.status = status, !.celery_task_id = task,
                         !.processed_emails = n, !.total_emails = MaxAvail] :
     owner \in {TheUser, "u2"}, status \in JobStatus, task \in {None, TheTask},
     n \in 0..MaxAvail}

\* lines 489-514: the row of the caller's job, or 404.
call_get_job_status ==
  /\ svc = NoCall
  /\ svc' = IF find_job(job, TheUser)
            THEN [op |-> "get_job_status", response |-> "200", status |-> job.status,
                  processed_emails |-> job.processed_emails]
            ELSE [op |-> "get_job_status", response |-> "404", status |-> None,
                  processed_emails |-> 0]
  /\ UNCHANGED <<job, users, api, cancel, revoked, w, labelled, progress,
                 mailbox, classifier, faults, hist, lab, pool>>

InitApi ==
  /\ job \in StoredJobs \cup {NoJob}
  /\ users = {TheUser, "u2"}
  /\ api = "stored"
  /\ cancel = [pc |-> "idle", left |-> MaxCancels, response |-> None]
  /\ revoked = FALSE
  /\ w = IdleWorker
  /\ labelled = {}
  /\ progress = << >>
  /\ mailbox = << >>
  /\ classifier = [mode |-> "fast", model |-> None]
  /\ faults = [left |-> 0, outage |-> "never"]
  /\ hist = [persisted |-> 0, cancelAt |-> 0, cancelledPending |-> FALSE,
             failures |-> 0]
  /\ svc = NoCall
  /\ lab = NoLabels
  /\ pool = NoPool

NextApi ==
  \/ call_get_job_status
  \/ call_returned
  \/ cancel_read
  \/ cancel_commit

SpecApi ==
  InitApi /\ [][NextApi]_vars

(***************************************************************************)
(* Properties                                                              *)
(***************************************************************************)
RECURSIVE SumCounts(_, _)
SumCounts(f, S) ==
  IF S = {} THEN 0
  ELSE LET c == CHOOSE x \in S : TRUE
       IN f[c] + SumCounts(f, S \ {c})

Total(f) ==
  SumCounts(f, DOMAIN f)

Quiescent ==
  /\ w.pc = "done"
  /\ cancel.pc = "idle"

\* C1: once the job's status is COMPLETED, FAILED or CANCELLED, no step of
\* the worker or of the API changes it.
C1_TerminalAbsorbing ==
  [][job.status \in Terminal => job'.status = job.status]_vars

C3_CompletedAccounting ==
  job.status = COMPLETED =>
    /\ Total(job.category_counts) + job.error_count = job.processed_emails
    /\ job.processed_emails = job.total_emails

\* C4: a message that fails (detail absent, fetch or apply raising after its
\* retries, apply returning False) adds one to error_count and one record to
\* errors, the loop goes on with the next message and the status is not
\* touched; a run with failures that reaches the end of the list ends
\* COMPLETED with the failures counted.
C4_MessageFailureContinues ==
  /\ [][(w.pc = "loop" /\ w'.idx = w.idx + 1 /\ w'.last \in MessageFailed) =>
          /\ w'.error_count = w.error_count + 1
          /\ Len(w'.errors) = Len(w.errors) + 1
          /\ w'.errors[Len(w'.errors)].message_id = w.message_ids[w.idx + 1]
          /\ w'.pc = "loop"
          /\ w'.fatal = None
          /\ job'.status = job.status]_vars
  /\ [][(w.pc = "loop" /\ w.error_count > 0 /\ w'.result = "returned") =>
          /\ job'.status = COMPLETED
          /\ job'.error_count = w.error_count]_vars

C4_Witness ==
  /\ w.result = "returned"
  /\ w.last \in MessageFailed
  /\ w.error_count > 0
  /\ job.status = COMPLETED

\* C5: get_message_detail whose provider call fails transiently on attempts
\* one and two and succeeds on attempt three returns the message detail.
C5_DetailRetriesTransient ==
  (svc.op = "get_message_detail"
     /\ svc.plan = <<"http_transient", "http_transient", "ok">>)
    => svc.result.kind = "detail"

\* C6: get_messages(max_results = N) that returns, returns exactly
\* min(N, available) ids, for every N >= 0.
C6_ListReturnsMin ==
  (svc.op = "get_messages" /\ svc.result.kind = "ids")
    => Len(svc.result.ids) = Min(svc.max_results, svc.available)

\* C7: at most 9 iterated messages are ever without a persisted checkpoint.
C7_CheckpointLag ==
  w.idx - hist.persisted <= CheckpointEvery - 1

\* C8: cancel_job called while message 5 of 20 is iterated: no message after
\* the 6th is labelled, and the job ends CANCELLED with processed_emails <= 6.
C8_CancelDuringMessageFive ==
  (hist.cancelAt = 5 /\ Len(w.message_ids) = 20) =>
    /\ \A m \in labelled : m <= 6
    /\ Quiescent => (job.status = CANCELLED /\ job.processed_emails <= 6)

\* C9: a task that finds no user for an existing job row moves the row to
\* FAILED with exactly one error entry.
C9_FailFastOnMissingUser ==
  [][(w.pc = "queued" /\ w'.result = "not_found" /\ job.exists) =>
       (job'.status = FAILED /\ Len(job'.errors) = 1)]_vars

\* C10: an exception raised outside the per-message handler leaves the job
\* FAILED with an errors list of exactly that exception's text, and the
\* task ends by raising it.
C10_FatalMarksFailed ==
  [][(w.fatal = None /\ w'.fatal # None) =>
       /\ job'.status = FAILED
       /\ job'.errors = <<[error |-> w'.fatal]>>
       /\ w'.result = "raised"
       /\ w'.pc = "done"]_vars

C10_Witness ==
  /\ w.fatal # None
  /\ w.result = "raised"
  /\ job.status = FAILED
  /\ Len(job.errors) = 1

\* C11: processed_emails never exceeds total_emails, in the stored row and in
\* the worker's session alike (before total_emails is set both are 0).
C11_ProcessedAtMostTotal ==
  /\ job.processed_emails <= job.total_emails
  /\ w.pc \in {"labels", "loop"} => w.processed_emails <= Len(w.message_ids)
  /\ w.result = "returned" => w.processed_emails <= job.total_emails

C11_Witness ==
  /\ job.status = RUNNING
  /\ job.total_emails = 2 * CheckpointEvery
  /\ job.processed_emails = CheckpointEvery
  /\ w.processed_emails > job.processed_emails

\* C12: a job whose run reached the end of the list with F failed messages
\* stores the first min(F, 100) error records in processing order, and its
\* error_count is F.
C12_ErrorsCapped ==
  w.result = "returned" =>
    /\ Len(w.errors) = hist.failures
    /\ Len(job.errors) = Min(hist.failures, MaxErrorsStored)
    /\ \A i \in 1..Len(job.errors) : job.errors[i] = w.errors[i]
    /\ \A i \in 1..Len(w.errors), j \in 1..Len(w.errors) :
         i < j => w.errors[i].message_id < w.errors[j].message_id
    /\ job.error_count = hist.failures

C12_Witness ==
  /\ w.result = "returned"
  /\ hist.failures = MaxErrorsStored + 1
  /\ Len(job.errors) = MaxErrorsStored
  /\ job.error_count = MaxErrorsStored + 1

\* C13 (as claimed): for each label name every create_label call returns
\* the same id, and at most one provider create call is issued in total.
C13_CreateLabelIdempotent ==
  lab.op = "create_label" =>
    \A n \in LabelNames :
      /\ Cardinality({r.id : r \in {x \in lab.returned : x.name = n}}) <= 1
      /\ lab.creates[n] <= 1

\* C13 (amended): for each label name every create_label call that returns,
\* returns the id of the one provider label carrying that name (compared
\* without case), and at most one create call for the name succeeds at the
\* provider; failed create calls may be followed by further create calls.
C13_CreateLabelResolves ==
  lab.op = "create_label" =>
    /\ \A r \in lab.returned :
         \E l \in lab.labels : l.id = r.id /\ lower(l.name) = lower(r.name)
    /\ \A n \in LabelNames :
         /\ Cardinality({r.id : r \in {x \in lab.returned : x.name = n}}) <= 1
         /\ Cardinality({l \in lab.labels : lower(l.name) = lower(n)}) <= 1
         /\ lab.created[n] <= 1

C13_Witness ==
  /\ lab.op = "create_label"
  /\ lab.creates["Cloudidian/Spam"] >= 2
  /\ lab.created["Cloudidian/Spam"] = 1
  /\ \A j \in Jobs : lab.job[j].result.kind = "id" /\ lab.job[j].name = "Cloudidian/Spam"
  /\ \A j \in Jobs : lab.job[j].left = 0

\* C14: apply_label never raises: whatever way the provider modify call
\* fails, on whichever attempt, the caller gets True or False back.
C14_ApplyLabelNeverRaises ==
  svc.op = "apply_label" => svc.result.kind \in {"true", "false"}

\* The rule pass as the claims state it: categories in priority order, each
\* with the number of keyword hits it needs.
RulePriority ==
  <<"spam", "security", "finance", "promotion", "work">>

RuleThreshold ==
  [spam |-> 2, security |-> 2, finance |-> 1, promotion |-> 2, work |-> 2]

Hits(text, category) ==
  Cardinality({k \in CATEGORIES[category] : k \in text})

RulesMet(text) ==
  {i \in 1..Len(RulePriority) :
     Hits(text, RulePriority[i]) >= RuleThreshold[RulePriority[i]]}

NoPrediction(mode, model, prediction) ==
  mode = "fast" \/ model = None \/ prediction \in {None, "raise"}

\* C15: classify returns the first category, in the order spam, security,
\* finance, promotion, work, whose threshold (2, 2, 1, 2, 2 hits) the text
\* meets; a text with 2 spam and 2 work keywords is spam.
C15_RulePriority ==
  (svc.op = "classify" /\ RulesMet(svc.text) # {}) =>
    /\ \E i \in RulesMet(svc.text) :
         /\ \A j \in RulesMet(svc.text) : i <= j
         /\ svc.result = RulePriority[i]
    /\ (Hits(svc.text, "spam") >= 2 /\ Hits(svc.text, "work") >= 2) => svc.result = "spam"

C15_Witness ==
  /\ svc.op = "classify"
  /\ Hits(svc.text, "spam") >= 2
  /\ Hits(svc.text, "work") >= 2
  /\ svc.result = "spam"

\* C16: classify returns a category name for every input, and "personal"
\* when no rule matches and no model prediction is obtained (FAST mode, no
\* model loaded, the model returns nothing, the model call raises).
C16_AlwaysACategory ==
  svc.op = "classify" =>
    /\ svc.result \notin {None, "raise"}
    /\ (RulesMet(svc.text) = {} /\ NoPrediction(svc.mode, svc.model, svc.prediction))
         => svc.result = "personal"

C16_Witness ==
  /\ svc.op = "classify"
  /\ RulesMet(svc.text) = {}
  /\ svc.mode = "accurate"
  /\ svc.model = "loaded"
  /\ svc.prediction = "raise"
  /\ svc.result = "personal"

\* C17: when a rule matches, every mode, model and model prediction gives
\* the same category for the same text; in FAST mode the result never
\* depends on the model.
C17_RuleResultIgnoresModel ==
  svc.op = "classify" =>
    /\ RulesMet(svc.text) # {} =>
         \A mode \in {"fast", "balanced", "accurate"}, model \in {None, "loaded"},
            prediction \in Predictions :
           classify(svc.text, mode, model, prediction) = svc.result
    /\ svc.mode = "fast" =>
         \A model \in {None, "loaded"}, prediction \in Predictions :
           classify(svc.text, "fast", model, prediction) = svc.result

C17_Witness ==
  /\ svc.op = "classify"
  /\ RulesMet(svc.text) # {}
  /\ svc.mode = "balanced"
  /\ svc.model = "loaded"
  /\ svc.prediction = "work"
  /\ svc.result = "finance"

\* C18: the FAST job over the three messages spam / no rule / work, with
\* every provider call succeeding and no cancel request, ends COMPLETED with
\* a tally of 1 for spam, personal and work and of 0 for every other catalog
\* category, processed_emails = 3 and error_count = 0.
C18_EndToEndCounts ==
  (mailbox = MixedMailbox /\ w.result = "returned" /\ hist.failures = 0
     /\ cancel.left = MaxCancels /\ cancel.pc = "idle") =>
    /\ job.category_counts =
         [c \in Categories |-> IF c \in {"spam", "personal", "work"} THEN 1 ELSE 0]
    /\ job.processed_emails = 3
    /\ job.error_count = 0
    /\ job.status = COMPLETED

C18_Witness ==
  /\ mailbox = MixedMailbox
  /\ classifier.mode = "fast"
  /\ w.result = "returned"
  /\ hist.failures = 0
  /\ cancel.left = MaxCancels
  /\ job.status = COMPLETED
  /\ job.processed_emails = 3
  /\ labelled = {1, 2, 3}

\* A step of the API layer: start_classification_job or cancel_job moves.
ApiStep ==
  api' # api \/ cancel' # cancel

\* C19: while the job's worker executes, no step of the API layer changes a
\* field of the Job row.
C19_OnlyWorkerWrites ==
  [][(w.pc \in Executing /\ ApiStep) => job' = job]_vars

\* C20: every step that sets the status to RUNNING finds it PENDING, also a
\* task that starts after the job was cancelled.
C20_RunningOnceFromPending ==
  [][(job'.status = RUNNING /\ job.status # RUNNING) => job.status = PENDING]_vars

\* C21: after every iteration of the loop, failed ones included, the
\* session's processed_emails equals the number of messages iterated.
C21_ProcessedCountsEveryMessage ==
  [][(w.pc = "loop" /\ w'.idx = w.idx + 1) => w'.processed_emails = w'.idx]_vars

\* C22: a permanent HttpError in get_messages, or an exception that is not
\* an HttpError (a malformed payload) in get_message_detail, on the first
\* attempt costs one attempt and is raised to the caller.
C22_PermanentNotRetried ==
  /\ (svc.op = "get_messages" /\ svc.plan[1].failAt = 1
        /\ svc.plan[1].err = "http_permanent")
       => (svc.result.kind = "raise" /\ svc.result.calls = 1)
  /\ (svc.op = "get_message_detail" /\ svc.plan[1] = "other")
       => (svc.result.kind = "raise" /\ svc.result.calls = 1)

\* C29: whatever the text, the mode and the model's prediction, classify
\* returns one of the six catalog categories.
C29_ResultInCatalog ==
  svc.op = "classify" => svc.result \in Categories

\* C30: a job row carries a completion timestamp only while its status is
\* COMPLETED.
C30_CompletedAtOnlyWhenCompleted ==
  job.completed_at => job.status = COMPLETED

\* Every attempt of the call in svc fails at its first provider call.
AllAttemptsFail ==
  \A n \in 1..MaxAttempts :
    CASE svc.op = "get_messages" -> svc.plan[n].failAt = 1
      [] svc.op = "create_label" -> svc.plan[n] = "list_fails"
      [] OTHER -> svc.plan[n] # "ok"

\* C23: a call of get_messages, get_message_detail, create_label or
\* apply_label makes at most 3 attempts, and when every attempt fails it
\* ends by the third with a failure for the caller (an exception, an absent
\* detail, or False).
C23_AtMostThreeAttempts ==
  svc.op \in {"get_messages", "get_message_detail", "create_label", "apply_label"} =>
    /\ svc.result.calls \in 1..MaxAttempts
    /\ AllAttemptsFail => svc.result.kind \in {"raise", "absent", "false"}

C23_Witness ==
  /\ svc.op = "apply_label"
  /\ \A n \in 1..MaxAttempts : svc.plan[n] = "other"
  /\ svc.result.calls = MaxAttempts
  /\ svc.result.kind = "raise"

\* C24: the loop takes the listed messages one at a time in listing order:
\* an iteration moves the position by one, touches only the message at that
\* position (label, error record), and that message was not touched before.
C24_OneAtATimeInOrder ==
  [][(w.pc = "loop" /\ w'.idx # w.idx) =>
       LET m == w.message_ids[w.idx + 1]
       IN /\ w'.idx = w.idx + 1
          /\ w'.message_ids = w.message_ids
          /\ (labelled' \ labelled) \subseteq {m}
          /\ w'.last = "labelled" => m \in labelled'
          /\ Len(w'.errors) > Len(w.errors) => w'.errors[Len(w'.errors)].message_id = m
          /\ m \notin labelled
          /\ \A i \in 1..Len(w.errors) : w.errors[i].message_id # m]_vars

C24_Witness ==
  /\ w.pc = "loop"
  /\ Len(w.message_ids) = 3
  /\ w.idx = 2
  /\ labelled = {1, 2}

\* C25: no message is fetched or labelled before label_cache holds an id for
\* each of the six categories, and a failing label setup leaves the job
\* FAILED with nothing labelled and processed_emails = 0.
C25_LabelsBeforeMessages ==
  [][/\ w'.pc = "loop" => DOMAIN w'.label_cache = Categories
     /\ (labelled' # labelled \/ w'.idx # w.idx) => DOMAIN w.label_cache = Categories
     /\ (w.pc = "labels" /\ w'.fatal # None) =>
          /\ job'.status = FAILED
          /\ labelled' = {}
          /\ w'.idx = 0
          /\ job'.processed_emails = 0]_vars

C25_Witness ==
  /\ w.fatal = "RetryError"
  /\ Cardinality(DOMAIN w.label_cache) = 3
  /\ job.status = FAILED
  /\ job.processed_emails = 0
  /\ labelled = {}

\* The text of the first text/plain part with data, in depth-first order
\* over the part tree; "" when there is none.
RECURSIVE FirstPlainText(_)
RECURSIVE FirstPlainTextIn(_, _)
FirstPlainText(part) ==
  IF part.mimeType = "text/plain" /\ part.data # "" THEN part.data
  ELSE FirstPlainTextIn(part.parts, 1)

FirstPlainTextIn(parts, i) ==
  IF i > Len(parts) THEN ""
  ELSE IF FirstPlainText(parts[i]) # "" THEN FirstPlainText(parts[i])
  ELSE FirstPlainTextIn(parts, i + 1)

\* C26: the body extracted from a payload is the text of its first
\* text/plain part in depth-first order, and "" when no text/plain part has
\* data.
C26_BodyIsFirstPlainText ==
  svc.op = "message_fields" => svc.result.body = FirstPlainText(svc.payload)

\* The header name without its letter case.
HeaderKey(name) ==
  CASE name \in {"Subject", "subject", "SUBJECT"} -> "subject"
    [] name \in {"From", "from", "FROM"} -> "from"
    [] OTHER -> name

\* C27: subject and sender are found whatever the letter case of the header
\* names.
C27_HeadersAnyCase ==
  svc.op = "message_fields" =>
    \A i \in 1..Len(svc.headers) :
      /\ HeaderKey(svc.headers[i].name) = "subject"
           => svc.result.subject = svc.headers[i].value
      /\ HeaderKey(svc.headers[i].name) = "from"
           => svc.result.from = svc.headers[i].value

\* The fields of a row that a run reports through.
RunFields(row) ==
  <<row.status, row.total_emails, row.processed_emails, row.error_count,
    row.category_counts, row.errors, row.completed_at>>

\* C28: a step of one job's task execution changes none of status,
\* total_emails, processed_emails, error_count, category_counts, errors and
\* completed_at of the other job's row.
C28_OtherRowUntouched ==
  [][pool.op = "jobs" =>
       \A j \in Jobs, k \in Jobs :
         (pool'.run[j] # pool.run[j] /\ k # j)
           => RunFields(pool'.rows[k]) = RunFields(pool.rows[k])]_vars

C28_Witness ==
  /\ pool.op = "jobs"
  /\ pool.rows["jobA"].status = COMPLETED
  /\ pool.rows["jobA"].total_emails = 2
  /\ pool.rows["jobA"].error_count = 1
  /\ pool.rows["jobB"].status = RUNNING
  /\ pool.rows["jobB"].total_emails = 1
  /\ pool.run["jobB"].idx = 1
  /\ pool.rows["jobB"].user_id = "u2"

\* C31: the list get_messages returns holds each listed id at most once, in
\* listing order from the first one, also when an earlier attempt failed
\* part-way through the pages.
C31_RetryStartsAfresh ==
  (svc.op = "get_messages" /\ svc.result.kind = "ids") =>
    /\ \A i \in 1..Len(svc.result.ids) : svc.result.ids[i] = i
    /\ \A i \in 1..Len(svc.result.ids), j \in 1..Len(svc.result.ids) :
         i # j => svc.result.ids[i] # svc.result.ids[j]
    /\ Len(svc.result.ids) <= svc.available

C31_Witness ==
  /\ svc.op = "get_messages"
  /\ svc.plan[1].failAt = 2
  /\ svc.result.kind = "ids"
  /\ svc.result.calls = 2
  /\ Len(svc.result.ids) >= 2

\* C32: the job row is committed before the task is enqueued, so a task
\* that was enqueued finds it (it returns "not found" only for a missing
\* user); and celery_task_id, once the API or the worker wrote it, is the id
\* of the job's task.
C32_RowBeforeTaskAndTaskId ==
  /\ w.pc # "none" => job.exists
  /\ w.result = "not_found" => TheUser \notin users
  /\ job.celery_task_id \in {None, TheTask}
  /\ (api = "stored" \/ w.pc \in Executing) => job.celery_task_id = TheTask

C32_Witness ==
  /\ api = "enqueued"
  /\ w.pc \in Executing
  /\ job.celery_task_id = TheTask

\* C33: for a job owned by another user, get_job_status and cancel_job both
\* answer 404 "Job not found"; cancel_job leaves the row as it is and
\* revokes nothing.
C33_OnlyOwnJobs ==
  [][(job.exists /\ job.user_id # TheUser) =>
       /\ job' = job
       /\ revoked' = revoked
       /\ cancel' # cancel => (cancel'.response = "404" /\ cancel'.pc = "idle")
       /\ svc'.op = "get_job_status" => svc'.response = "404"]_vars

C33_Witness ==
  /\ job.user_id = "u2"
  /\ job.status = RUNNING
  /\ job.celery_task_id = TheTask
  /\ cancel.response = "404"
  /\ ~revoked
  /\ svc.op = "get_job_status"
  /\ svc.response = "404"

====
